---- MODULE Spec2Model ----
(***************************************************************************)
(* A model of the YOLO <-> COCO converter and the COCO dataset merger:     *)
(*   coco_merge/merger.py  merge_datasets (and the merge command, cli.py)  *)
(*   yolococo/convert.py   yolo_to_coco, coco_to_yolo_files                *)
(* Python dicts are functions (records when the keys are strings), lists   *)
(* are sequences (1-based here, 0-based in the source), None is the empty  *)
(* sequence <<>> and a value v that may be None is <<v>>.                  *)
(***************************************************************************)
EXTENDS Integers, Sequences, FiniteSets, TLC

VARIABLES
    prog,                       \* which entry point runs: "merge", "y2c", "c2y"
    pc,                         \* its position
    \* ---- merge_datasets: arguments
    datasets,                   \* the loaded inputs, one per input path
    prefix_mode,
    custom_prefixes,
    align_by_name,
    drop_duplicate_filenames,
    \* ---- merge_datasets: locals
    i,                          \* dataset index of the running loop
    img_pos,                    \* position of the image loop in datasets[i].images
    cat_maps,
    merged_categories,
    merged_licenses,
    lic_key_to_newid,
    next_img_id,
    next_ann_id,
    merged_images,
    merged_annotations,
    seen_filenames,
    merged,                     \* the returned dataset, <<>> until returned
    out_file,                   \* what the merge command wrote, <<>> if nothing
    \* ---- history: where each merged image / annotation came from
    img_src,                    \* <<dataset, position>> per merged image
    ann_src,                    \* <<dataset, position>> per merged annotation
    \* ---- yolo_to_coco: arguments (the directories as read)
    img_files,                  \* the image files found, sorted by path
    labels,                     \* the label files: stem -> lines of tokens
    classes,                    \* load_classes_txt(classes_path)
    bbox_round,
    \* ---- yolo_to_coco: locals
    file_pos,                   \* position of the loop in img_files
    images,
    annotations,
    categories,
    ann_id,
    img_id,
    seen_class_ids,
    coco_out,                   \* the returned dataset, <<>> until returned
    \* ---- coco_to_yolo_files: arguments
    coco,                       \* the loaded dataset
    keep_category_ids,
    skip_empty_labels,
    \* ---- coco_to_yolo_files: locals
    item_pos,                   \* position of the loop in images.items()
    catid_to_yolo,
    yolo_classes,
    \* ---- coco_to_yolo_files: the files written
    label_files,                \* out_labels_dir: stem -> the lines written
    classes_file                \* out_classes_path: <<lines>>, <<>> if not written

mergeArgs   == <<datasets, prefix_mode, custom_prefixes, align_by_name,
                 drop_duplicate_filenames>>
mergeLocals == <<i, img_pos, cat_maps, merged_categories, merged_licenses,
                 lic_key_to_newid, next_img_id, next_ann_id, merged_images,
                 merged_annotations, seen_filenames, merged, out_file,
                 img_src, ann_src>>
mergeVars   == <<mergeArgs, mergeLocals>>
y2cArgs     == <<img_files, labels, classes, bbox_round>>
y2cLocals   == <<file_pos, images, annotations, categories, ann_id, img_id,
                 seen_class_ids, coco_out>>
y2cVars     == <<y2cArgs, y2cLocals>>
c2yArgs     == <<coco, keep_category_ids, skip_empty_labels>>
c2yLocals   == <<item_pos, catid_to_yolo, yolo_classes, label_files, classes_file>>
c2yVars     == <<c2yArgs, c2yLocals>>
notMerge    == <<y2cVars, c2yVars>>
notY2C      == <<mergeVars, c2yVars>>
notC2Y      == <<mergeVars, y2cVars>>

None == <<>>

(***************************************************************************)
(* Bounds of the model                                                     *)
(***************************************************************************)
NumDatasets == 2      \* input datasets of one merge
MaxCats     == 2      \* categories per dataset; category ids are 0..MaxCats-1
MaxImgs     == 2      \* images per dataset; image ids are 1..MaxImgs
MaxAnns     == 2      \* annotations per dataset
MaxLics     == 2      \* licenses per dataset; license ids are 1..MaxLics
NDen        == 4      \* label values are multiples of 1/NDen
MaxNum      == 5      \* label values range over -1/NDen .. MaxNum/NDen
MaxLines    == 2      \* lines of a label file

\* bbox_round's default, the finest rounding the model represents
DefaultBboxRound == 2
\* pixel quantities are integers in units of 1/PxUnit pixel, areas in units of
\* 1/PxUnit^2: every value the conversions compute from the label values
\* above is exact on this grid (the source computes in binary floating point)
PxUnit == 2 * NDen * 10^DefaultBboxRound

(***************************************************************************)
(* Helpers for Python's list and dict operations                           *)
(***************************************************************************)
Range(s) == {s[j] : j \in 1..Len(s)}

\* SeqsUpTo(S, n): the sequences over S of length at most n
SeqsUpTo(S, n) == UNION {[1..m -> S] : m \in 0..n}

\* sorted(xs, key=lambda c: c["id"]): Python's sort is stable
RankById(s, j) ==
    1 + Cardinality({m \in 1..Len(s) :
                        \/ s[m].id < s[j].id
                        \/ s[m].id = s[j].id /\ m < j})
SortById(s) == [r \in 1..Len(s) |-> s[CHOOSE j \in 1..Len(s) : RankById(s, j) = r]]

\* [c["id"] for c in s]
IdsOf(s) == [j \in 1..Len(s) |-> s[j].id]

Distinct(s) == \A p, q \in 1..Len(s) : p # q => s[p] # s[q]

\* dict.get(key, default)
Get(d, key, default) == IF key \in DOMAIN d THEN d[key] ELSE default

\* a dict without one key
Pop(d, key) == [f \in DOMAIN d \ {key} |-> d[f]]

\* Path(name).stem, for the file names of the model
FileStem(name) ==
    CASE name = "a.jpg"   -> "a"
      [] name = "a.png"   -> "a"
      [] name = "b.jpg"   -> "b"
      [] name = "d/a.jpg" -> "a"

(***************************************************************************)
(* coco_merge/merger.py                                                    *)
(***************************************************************************)
\* categories_signature: the (id, name) pairs sorted by id
categories_signature(cats) ==
    LET s == SortById(cats) IN [j \in 1..Len(s) |-> <<s[j].id, s[j].name>>]

\* categories_name_map: a dict comprehension, so of two categories with one
\* name the later one's id stays
categories_name_map(cats) ==
    [name \in {cats[j].name : j \in 1..Len(cats)} |->
        LET last == CHOOSE j \in 1..Len(cats) :
                        /\ cats[j].name = name
                        /\ \A m \in j+1..Len(cats) : cats[m].name # name
        IN  cats[last].id]

\* the key of a license taken from its name alone
LicKeyNameOnly(lic) == <<lic.name, "">>

\* the key (name, url) of a license, an absent url being ""
LicKey(lic) == <<lic.name, Get(lic, "url", "")>>

\* dedup_licenses, the loop from position j on
RECURSIVE dedup_loop(_, _, _, _, _)
dedup_loop(all_licenses, j, out, key_to_newid, next_id) ==
    IF j > Len(all_licenses)
    THEN [out |-> out, key_to_newid |-> key_to_newid]
    ELSE LET lic == all_licenses[j]
             key == LicKey(lic)
             new_lic == IF key[2] # ""
                        THEN [id |-> next_id, name |-> key[1], url |-> key[2]]
                        ELSE [id |-> next_id, name |-> key[1]]
         IN  IF key \notin DOMAIN key_to_newid
             THEN dedup_loop(all_licenses, j + 1, Append(out, new_lic),
                             key_to_newid @@ (key :> next_id), next_id + 1)
             ELSE dedup_loop(all_licenses, j + 1, out, key_to_newid, next_id)

dedup_licenses(all_licenses) == dedup_loop(all_licenses, 1, <<>>, <<>>, 1)

\* all_licenses: the datasets' license lists, concatenated in input order
RECURSIVE AllLicenses(_, _)
AllLicenses(dss, n) ==
    IF n = 0 THEN <<>> ELSE AllLicenses(dss, n - 1) \o dss[n].licenses

\* license_new_id
license_new_id(lic) == Get(lic_key_to_newid, LicKey(lic), None)

\* one license-id map for all datasets: ids of later datasets overwrite
lic_map_shared(ds) ==
    LET all == AllLicenses(datasets, Len(datasets))
    IN  [id \in {all[j].id : j \in 1..Len(all)} |->
            LET last == CHOOSE j \in 1..Len(all) :
                            /\ all[j].id = id
                            /\ \A m \in j+1..Len(all) : all[m].id # id
            IN  license_new_id(all[last])]

\* lic_map of one dataset: later licenses with the same id overwrite
lic_map(ds) ==
    [id \in {ds.licenses[j].id : j \in 1..Len(ds.licenses)} |->
        LET last == CHOOSE j \in 1..Len(ds.licenses) :
                        /\ ds.licenses[j].id = id
                        /\ \A m \in j+1..Len(ds.licenses) : ds.licenses[m].id # id
        IN  license_new_id(ds.licenses[last])]

\* the prefix of dataset d
Prefix(d) ==
    IF prefix_mode = "basename" THEN datasets[d].stem \o "_"
    ELSE IF prefix_mode = "custom" THEN custom_prefixes[d]
    ELSE ""

\* the cat_map of one dataset once its categories are accepted
AlignedCatMap(cats, first_cats) ==
    LET name_to_id_i     == categories_name_map(cats)
        first_name_to_id == categories_name_map(first_cats)
    IN  [id \in {name_to_id_i[name] : name \in DOMAIN name_to_id_i} |->
            first_name_to_id[CHOOSE name \in DOMAIN name_to_id_i :
                                 name_to_id_i[name] = id]]

IdentityCatMap(cats) == [id \in {cats[j].id : j \in 1..Len(cats)} |-> id]

\* the category check that refuses every signature other than the first's
CategoriesRejectedStrict(ds) ==
    \/ ds.categories = <<>>
    \/ categories_signature(ds.categories)
          # categories_signature(datasets[1].categories)

\* whether the category check of dataset ds raises
CategoriesRejected(ds) ==
    LET cats       == ds.categories
        first_cats == datasets[1].categories
    IN  \/ cats = <<>>
        \/ /\ categories_signature(cats) # categories_signature(first_cats)
           /\ \/ ~align_by_name
              \/ DOMAIN categories_name_map(cats)
                    # DOMAIN categories_name_map(first_cats)

CatMapOf(ds) ==
    IF categories_signature(ds.categories)
         # categories_signature(datasets[1].categories)
    THEN AlignedCatMap(ds.categories, datasets[1].categories)
    ELSE IdentityCatMap(ds.categories)

\* the start without the check of the prefix count
MergeStartNoPrefixCheck ==
    /\ prog = "merge" /\ pc = "start"
    /\ IF datasets[1].categories = <<>>
       THEN pc' = "failed"
       ELSE pc' = "categories"
    /\ UNCHANGED mergeVars
    /\ UNCHANGED <<prog, notMerge>>

\* lines 80-91: the prefix check, the load, the first dataset's categories
MergeStart ==
    /\ prog = "merge" /\ pc = "start"
    /\ IF \/ /\ prefix_mode = "custom"
             /\ (custom_prefixes = <<>> \/ Len(custom_prefixes) # Len(datasets))
          \/ datasets[1].categories = <<>>
       THEN pc' = "failed"
       ELSE pc' = "categories"
    /\ UNCHANGED mergeVars
    /\ UNCHANGED <<prog, notMerge>>

\* lines 96-118: one round of the category loop
MergeCategories ==
    /\ prog = "merge" /\ pc = "categories"
    /\ i <= Len(datasets)
    /\ IF CategoriesRejected(datasets[i])
       THEN /\ pc' = "failed"
            /\ UNCHANGED <<i, cat_maps>>
       ELSE /\ cat_maps' = Append(cat_maps, CatMapOf(datasets[i]))
            /\ i' = i + 1
            /\ pc' = pc
    /\ UNCHANGED <<mergeArgs, img_pos, merged_categories, merged_licenses,
                   lic_key_to_newid, next_img_id, next_ann_id, merged_images,
                   merged_annotations, seen_filenames, merged, out_file,
                   img_src, ann_src>>
    /\ UNCHANGED <<prog, notMerge>>

\* lines 120-141: the merged categories, the licenses, the counters
MergeLicenses ==
    /\ prog = "merge" /\ pc = "categories"
    /\ i > Len(datasets)
    /\ merged_categories' =
           SortById([j \in 1..Len(datasets[1].categories) |->
                        [id |-> datasets[1].categories[j].id,
                         name |-> datasets[1].categories[j].name]])
    /\ LET d == dedup_licenses(AllLicenses(datasets, Len(datasets)))
       IN  /\ merged_licenses' = d.out
           /\ lic_key_to_newid' = d.key_to_newid
    /\ next_img_id' = 1
    /\ next_ann_id' = 1
    /\ merged_images' = <<>>
    /\ merged_annotations' = <<>>
    /\ seen_filenames' = {}
    /\ i' = 1
    /\ img_pos' = 1
    /\ pc' = "images"
    /\ UNCHANGED <<mergeArgs, cat_maps, merged, out_file, img_src, ann_src>>
    /\ UNCHANGED <<prog, notMerge>>

\* the positions of the image's annotations, the last one first
AnnsOfImageReversed(ds, old_img_id) ==
    LET idx == {j \in 1..Len(ds.annotations) : ds.annotations[j].image_id = old_img_id}
    IN  [r \in 1..Cardinality(idx) |->
            CHOOSE j \in idx : Cardinality({m \in idx : m > j}) = r - 1]

\* the positions in ds.annotations of anns_by_image.get(old_img_id, [])
AnnsOfImage(ds, old_img_id) ==
    LET idx == {j \in 1..Len(ds.annotations) : ds.annotations[j].image_id = old_img_id}
    IN  [r \in 1..Cardinality(idx) |->
            CHOOSE j \in idx : Cardinality({m \in idx : m < j}) = r - 1]

\* an image built anew from the id and the name, with no other field
NewImageBare(ds, img, new_id, new_file_name) ==
    [id |-> new_id, file_name |-> new_file_name]

\* lines 175-183: the copy of an image with its new id, name and license
NewImage(ds, img, new_id, new_file_name) ==
    LET base == [img EXCEPT !.id = new_id, !.file_name = new_file_name]
    IN  IF "license" \in DOMAIN base
        THEN IF base.license \in DOMAIN lic_map(ds)
             THEN [base EXCEPT !.license = lic_map(ds)[base.license]]
             ELSE Pop(base, "license")
        ELSE base

\* the copy of an annotation that keeps the id it had in its dataset
NewAnnotationOldId(d, a, new_id, new_image_id) ==
    [a EXCEPT !.image_id = new_image_id,
              !.category_id = Get(cat_maps[d], a.category_id, a.category_id)]

\* lines 190-194: the copy of an annotation
NewAnnotation(d, a, new_id, new_image_id) ==
    [a EXCEPT !.id = new_id,
              !.image_id = new_image_id,
              !.category_id = Get(cat_maps[d], a.category_id, a.category_id)]

NewFileName(d, img) ==
    IF Prefix(d) # "" THEN Prefix(d) \o img.file_name ELSE img.file_name

\* the duplicate test against the names of the running dataset's own images
IsDuplicateInDataset(new_file_name) ==
    /\ drop_duplicate_filenames
    /\ \E j \in 1..Len(img_src) :
          /\ img_src[j][1] = i
          /\ merged_images[j].file_name = new_file_name

\* line 170
IsDuplicate(new_file_name) ==
    drop_duplicate_filenames /\ new_file_name \in seen_filenames

\* lines 165-196: one round of the image loop of dataset i
MergeImage ==
    /\ prog = "merge" /\ pc = "images"
    /\ i <= Len(datasets)
    /\ img_pos <= Len(datasets[i].images)
    /\ LET ds            == datasets[i]
           img           == ds.images[img_pos]
           new_file_name == NewFileName(i, img)
           anns          == AnnsOfImage(ds, img.id)
       IN  IF IsDuplicate(new_file_name)
           THEN UNCHANGED <<seen_filenames, merged_images, merged_annotations,
                            next_img_id, next_ann_id, img_src, ann_src>>
           ELSE /\ seen_filenames' = seen_filenames \cup {new_file_name}
                /\ merged_images' =
                       Append(merged_images,
                              NewImage(ds, img, next_img_id, new_file_name))
                /\ img_src' = Append(img_src, <<i, img_pos>>)
                /\ next_img_id' = next_img_id + 1
                /\ merged_annotations' =
                       merged_annotations \o
                       [r \in 1..Len(anns) |->
                           NewAnnotation(i, ds.annotations[anns[r]],
                                         next_ann_id + r - 1, next_img_id)]
                /\ ann_src' = ann_src \o [r \in 1..Len(anns) |-> <<i, anns[r]>>]
                /\ next_ann_id' = next_ann_id + Len(anns)
    /\ img_pos' = img_pos + 1
    /\ UNCHANGED <<mergeArgs, i, cat_maps, merged_categories, merged_licenses,
                   lic_key_to_newid, merged, out_file>>
    /\ UNCHANGED <<prog, pc, notMerge>>

\* line 143: the dataset loop moves on
MergeNextDataset ==
    /\ prog = "merge" /\ pc = "images"
    /\ i <= Len(datasets)
    /\ img_pos > Len(datasets[i].images)
    /\ i' = i + 1
    /\ img_pos' = 1
    /\ UNCHANGED <<mergeArgs, cat_maps, merged_categories, merged_licenses,
                   lic_key_to_newid, next_img_id, next_ann_id, merged_images,
                   merged_annotations, seen_filenames, merged, out_file,
                   img_src, ann_src>>
    /\ UNCHANGED <<prog, pc, notMerge>>

\* lines 198-206
MergeReturn ==
    /\ prog = "merge" /\ pc = "images"
    /\ i > Len(datasets)
    /\ merged' = <<[licenses    |-> merged_licenses,
                    images      |-> merged_images,
                    annotations |-> merged_annotations,
                    categories  |-> merged_categories]>>
    /\ pc' = "returned"
    /\ UNCHANGED <<mergeArgs, i, img_pos, cat_maps, merged_categories,
                   merged_licenses, lic_key_to_newid, next_img_id, next_ann_id,
                   merged_images, merged_annotations, seen_filenames, out_file,
                   img_src, ann_src>>
    /\ UNCHANGED <<prog, notMerge>>

\* coco_merge/cli.py main, lines 66-69: the command writes what merge returned
MayWriteOutput == pc = "returned"

MergeWrite ==
    /\ prog = "merge"
    /\ MayWriteOutput
    /\ out_file = None
    /\ out_file' = merged
    /\ pc' = "written"
    /\ UNCHANGED <<mergeArgs, i, img_pos, cat_maps, merged_categories,
                   merged_licenses, lic_key_to_newid, next_img_id, next_ann_id,
                   merged_images, merged_annotations, seen_filenames, merged,
                   img_src, ann_src>>
    /\ UNCHANGED <<prog, notMerge>>


(***************************************************************************)
(* yolococo/convert.py: yolo_to_coco                                       *)
(***************************************************************************)
Max(a, b) == IF b > a THEN b ELSE a
Min(a, b) == IF b < a THEN b ELSE a

\* round(v, d) for v >= 0 on a grid of unit: to the nearest multiple of
\* unit / 10^d, a tie to the even multiple
RoundTo(v, unit, d) ==
    LET q  == unit \div 10^d
        lo == v \div q
        r  == v % q
    IN  IF 2 * r < q THEN lo * q
        ELSE IF 2 * r > q THEN (lo + 1) * q
        ELSE IF lo % 2 = 0 THEN lo * q ELSE (lo + 1) * q

\* A token of a label line is a literal: kind "int" (digits, num its value),
\* "float" (a decimal literal, num its value in 1/NDen) or "junk".
IntParses(tok)   == tok.kind = "int"                 \* int(tok) does not raise
FloatParses(tok) == tok.kind \in {"int", "float"}    \* float(tok) does not raise
IntOf(tok)   == tok.num
FloatOf(tok) == IF tok.kind = "int" THEN tok.num * NDen ELSE tok.num

\* the test of a line that takes exactly five tokens
LineAcceptedFiveOnly(parts) ==
    /\ Len(parts) = 5
    /\ IntParses(parts[1])
    /\ \A t \in 2..5 : FloatParses(parts[t])

\* lines 153-166: whether a stripped line, split in parts, yields an annotation
LineAccepted(parts) ==
    /\ Len(parts) \in {5, 6}
    /\ IntParses(parts[1])
    /\ \A t \in 2..5 : FloatParses(parts[t])

\* lines 171-192: the box of a line for an image of w x h pixels
BoxOf(xc, yc, ww, hh, w, h) ==
    LET f      == PxUnit \div NDen
        abs_w0 == ww * w * f
        abs_h0 == hh * h * f
        x_min  == Max(0, xc * w * f - abs_w0 \div 2)
        y_min  == Max(0, yc * h * f - abs_h0 \div 2)
        abs_w  == Max(0, Min(abs_w0, w * PxUnit - x_min))
        abs_h  == Max(0, Min(abs_h0, h * PxUnit - y_min))
    IN  IF bbox_round >= 0
        THEN [bbox |-> <<RoundTo(x_min, PxUnit, bbox_round),
                         RoundTo(y_min, PxUnit, bbox_round),
                         RoundTo(abs_w, PxUnit, bbox_round),
                         RoundTo(abs_h, PxUnit, bbox_round)>>,
              area |-> RoundTo(abs_w * abs_h, PxUnit * PxUnit, bbox_round)]
        ELSE [bbox |-> <<x_min, y_min, abs_w, abs_h>>,
              area |-> abs_w * abs_h]

\* lines 151-205: the loop over the lines of one label file, from line j on
RECURSIVE label_loop(_, _, _, _, _, _, _)
label_loop(lines, j, w, h, anns, next_ann, seen) ==
    IF j > Len(lines)
    THEN [annotations |-> anns, ann_id |-> next_ann, seen_class_ids |-> seen]
    ELSE LET parts == lines[j]
         IN  IF ~LineAccepted(parts)
             THEN label_loop(lines, j + 1, w, h, anns, next_ann, seen)
             ELSE LET cls == IntOf(parts[1])
                      box == BoxOf(FloatOf(parts[2]), FloatOf(parts[3]),
                                   FloatOf(parts[4]), FloatOf(parts[5]), w, h)
                  IN  label_loop(lines, j + 1, w, h,
                                 Append(anns,
                                        [id           |-> next_ann,
                                         image_id     |-> img_id,
                                         category_id  |-> cls,
                                         bbox         |-> box.bbox,
                                         area         |-> box.area,
                                         iscrowd      |-> 0,
                                         segmentation |-> <<>>]),
                                 next_ann + 1, seen \cup {cls})

\* sorted(set of integers)
SortedSeq(S) ==
    [r \in 1..Cardinality(S) |->
        CHOOSE x \in S : Cardinality({y \in S : y < x}) = r - 1]

\* lines 115-128
Y2CStart ==
    /\ prog = "y2c" /\ pc = "start"
    /\ images' = <<>>
    /\ annotations' = <<>>
    /\ categories' = [j \in 1..Len(classes) |-> [id |-> j - 1, name |-> classes[j]]]
    /\ ann_id' = 1
    /\ img_id' = 1
    /\ seen_class_ids' = {}
    /\ file_pos' = 1
    /\ pc' = IF img_files = <<>> THEN "failed" ELSE "images"
    /\ UNCHANGED <<y2cArgs, coco_out>>
    /\ UNCHANGED <<prog, notY2C>>

\* lines 132-207: one round of the loop over the image files
Y2CImage ==
    /\ prog = "y2c" /\ pc = "images"
    /\ file_pos <= Len(img_files)
    /\ LET img_path == img_files[file_pos]
       IN  IF img_path.size = None
           THEN /\ pc' = "failed"
                /\ UNCHANGED <<file_pos, images, annotations, ann_id, img_id,
                               seen_class_ids>>
           ELSE LET w == img_path.size[1][1]
                    h == img_path.size[1][2]
                    lines == Get(labels, FileStem(img_path.name), <<>>)
                    l == label_loop(lines, 1, w, h, annotations, ann_id,
                                    seen_class_ids)
                IN  /\ images' = Append(images,
                                        [id |-> img_id, file_name |-> img_path.name,
                                         width |-> w, height |-> h])
                    /\ annotations' = l.annotations
                    /\ ann_id' = l.ann_id
                    /\ seen_class_ids' = l.seen_class_ids
                    /\ img_id' = img_id + 1
                    /\ file_pos' = file_pos + 1
                    /\ pc' = pc
    /\ UNCHANGED <<y2cArgs, categories, coco_out>>
    /\ UNCHANGED <<prog, notY2C>>

\* lines 209-218
Y2CReturn ==
    /\ prog = "y2c" /\ pc = "images"
    /\ file_pos > Len(img_files)
    /\ categories' =
           IF categories = <<>>
           THEN LET ids == SortedSeq(seen_class_ids)
                IN  [j \in 1..Len(ids) |-> [id |-> ids[j],
                                           name |-> "class_" \o ToString(ids[j])]]
           ELSE categories
    /\ coco_out' = <<[images |-> images, annotations |-> annotations,
                      categories |-> categories']>>
    /\ pc' = "returned"
    /\ UNCHANGED <<y2cArgs, file_pos, images, annotations, ann_id, img_id,
                   seen_class_ids>>
    /\ UNCHANGED <<prog, notY2C>>

(***************************************************************************)
(* yolococo/convert.py: coco_to_yolo_files                                 *)
(***************************************************************************)
\* line 246: images = {img["id"]: img ...} as its items(): a key keeps the
\* place of its first image and the value of its last
ImageItems(imgs) ==
    LET firsts == {j \in 1..Len(imgs) : \A m \in 1..j-1 : imgs[m].id # imgs[j].id}
        lastOf(id) == CHOOSE j \in 1..Len(imgs) :
                         /\ imgs[j].id = id
                         /\ \A m \in j+1..Len(imgs) : imgs[m].id # id
    IN  [r \in 1..Cardinality(firsts) |->
            LET j == CHOOSE f \in firsts : Cardinality({m \in firsts : m < f}) = r - 1
            IN  imgs[lastOf(imgs[j].id)]]

\* lines 252-255: the categories, synthesized from the annotations if missing
CatsOf(c) ==
    IF c.categories # <<>> THEN c.categories
    ELSE LET ids == SortedSeq({c.annotations[j].category_id :
                                  j \in 1..Len(c.annotations)})
         IN  [j \in 1..Len(ids) |->
                 [id |-> ids[j], name |-> "category_" \o ToString(ids[j])]]

\* c.get("name") or f"category_{idx}"
NameOr(c, idx) ==
    IF Get(c, "name", "") # "" THEN c.name ELSE "category_" \o ToString(idx)

\* a dict built from a list of (key, value) pairs: the last pair of a key stays
DictOf(keys, vals) ==
    [key \in Range(keys) |->
        vals[CHOOSE j \in 1..Len(keys) :
                /\ keys[j] = key
                /\ \A m \in j+1..Len(keys) : keys[m] # key]]

\* the class indices with the dense ones given in list order
CatIdToYoloListOrder(cats) ==
    IF keep_category_ids
    THEN DictOf(IdsOf(cats), IdsOf(cats))
    ELSE DictOf(IdsOf(cats), [j \in 1..Len(cats) |-> j - 1])

\* lines 258-273
CatIdToYolo(cats) ==
    IF keep_category_ids
    THEN DictOf(IdsOf(cats), IdsOf(cats))
    ELSE DictOf(IdsOf(SortById(cats)), [j \in 1..Len(cats) |-> j - 1])

MaxOf(S) == CHOOSE x \in S : \A y \in S : y <= x

YoloClasses(cats) ==
    IF keep_category_ids
    THEN LET named == DictOf(IdsOf(cats), [j \in 1..Len(cats) |-> NameOr(cats[j], cats[j].id)])
         IN  [j \in 1..MaxOf(Range(IdsOf(cats))) + 1 |->
                 Get(named, j - 1, "category_" \o ToString(j - 1))]
    ELSE LET sorted_cats == SortById(cats)
         IN  [j \in 1..Len(cats) |-> NameOr(sorted_cats[j], sorted_cats[j].id)]

\* lines 278-285 and 296: the annotations kept for image img_id, in order
AnnsByImage(c, id) ==
    SelectSeq(c.annotations,
              LAMBDA a : /\ Get(a, "iscrowd", 0) # 1
                         /\ a.image_id \in Range(IdsOf(c.images))
                         /\ a.image_id = id)

\* line 290
ValidSize(imginfo) ==
    /\ "width" \in DOMAIN imginfo /\ "height" \in DOMAIN imginfo
    /\ imginfo.width > 0 /\ imginfo.height > 0

\* f"{v:.6f}" of clamp01(num / den), den > 0, as an integer number of 1e-6:
\* six decimal digits by long division, a tie to the even digit
RECURSIVE Digits(_, _, _, _)
Digits(r, den, n, acc) ==
    IF n = 0 THEN <<acc, r>>
    ELSE Digits((r * 10) % den, den, n - 1, acc * 10 + (r * 10) \div den)

Clamp01Fmt(num, den) ==
    IF num <= 0 THEN 0
    ELSE IF num >= den THEN 10^6
    ELSE LET d == Digits(num, den, 6, 0)
         IN  IF 2 * d[2] < den THEN d[1]
             ELSE IF 2 * d[2] > den THEN d[1] + 1
             ELSE IF d[1] % 2 = 0 THEN d[1] ELSE d[1] + 1

\* lines 297-316: the label line of annotation a, image of w x h pixels
LabelLine(a, w, h) ==
    [cls |-> catid_to_yolo[a.category_id],
     xc  |-> Clamp01Fmt(2 * a.bbox[1] + a.bbox[3], 2 * PxUnit * w),
     yc  |-> Clamp01Fmt(2 * a.bbox[2] + a.bbox[4], 2 * PxUnit * h),
     ww  |-> Clamp01Fmt(a.bbox[3], PxUnit * w),
     hh  |-> Clamp01Fmt(a.bbox[4], PxUnit * h)]

LabelLines(c, imginfo) ==
    LET kept == SelectSeq(AnnsByImage(c, imginfo.id),
                          LAMBDA a : a.category_id \in DOMAIN catid_to_yolo)
    IN  [j \in 1..Len(kept) |-> LabelLine(kept[j], imginfo.width, imginfo.height)]

\* lines 246-275: the checks and the class indexing
C2YStart ==
    /\ prog = "c2y" /\ pc = "start"
    /\ IF \/ coco.images = <<>>
          \/ keep_category_ids /\ CatsOf(coco) = <<>>     \* max() of nothing
       THEN /\ pc' = "failed"
            /\ UNCHANGED <<catid_to_yolo, yolo_classes>>
       ELSE /\ catid_to_yolo' = CatIdToYolo(CatsOf(coco))
            /\ yolo_classes' = YoloClasses(CatsOf(coco))
            /\ pc' = "labels"
    /\ item_pos' = 1
    /\ UNCHANGED <<c2yArgs, label_files, classes_file>>
    /\ UNCHANGED <<prog, notC2Y>>

\* lines 288-321: one round of the loop over the images
C2YImage ==
    /\ prog = "c2y" /\ pc = "labels"
    /\ item_pos <= Len(ImageItems(coco.images))
    /\ LET imginfo == ImageItems(coco.images)[item_pos]
       IN  IF ~ValidSize(imginfo)
           THEN /\ pc' = "failed"
                /\ UNCHANGED <<item_pos, label_files>>
           ELSE LET label_lines == LabelLines(coco, imginfo)
                    stem == FileStem(imginfo.file_name)
                IN  /\ label_files' =
                           IF label_lines # <<>> \/ ~skip_empty_labels
                           THEN [f \in DOMAIN label_files \cup {stem} |->
                                    IF f = stem THEN label_lines ELSE label_files[f]]
                           ELSE label_files
                    /\ item_pos' = item_pos + 1
                    /\ pc' = pc
    /\ UNCHANGED <<c2yArgs, catid_to_yolo, yolo_classes, classes_file>>
    /\ UNCHANGED <<prog, notC2Y>>

\* lines 324-326
C2YClasses ==
    /\ prog = "c2y" /\ pc = "labels"
    /\ item_pos > Len(ImageItems(coco.images))
    /\ classes_file' = <<yolo_classes>>
    /\ pc' = "done"
    /\ UNCHANGED <<c2yArgs, item_pos, catid_to_yolo, yolo_classes, label_files>>
    /\ UNCHANGED <<prog, notC2Y>>

\* lines 240-246 after lines 217-218: coco_to_yolo_files is called with the
\* dataset that yolo_to_coco returned (coco_json is a pre-loaded dict)
RoundTripLoad ==
    /\ prog = "y2c" /\ pc = "returned"
    /\ prog' = "c2y" /\ pc' = "start"
    /\ coco' = coco_out[1]
    /\ keep_category_ids' \in BOOLEAN
    /\ skip_empty_labels' \in BOOLEAN
    /\ UNCHANGED c2yLocals
    /\ UNCHANGED <<mergeVars, y2cVars>>

(***************************************************************************)
(* The inputs of a merge                                                   *)
(***************************************************************************)
CatNames  == {"cat", "dog"}
FileNames == {"a.jpg", "b.jpg"}
Stems     == {"x", "y"}

Dataset(stem, cats, lics, imgs, anns) ==
    [stem |-> stem, categories |-> cats, licenses |-> lics, images |-> imgs,
     annotations |-> anns]

Image(id, file_name) ==
    [id |-> id, file_name |-> file_name, width |-> 10, height |-> 10]

\* annotations: ids 1.. in list order, bbox a tag unique in the dataset
Ann(id, image_id, category_id) ==
    [id |-> id, image_id |-> image_id, category_id |-> category_id,
     bbox |-> <<id, id, 1, 1>>, area |-> 1, iscrowd |-> 0, segmentation |-> <<>>]

\* category lists: ids 0..MaxCats-1, unique in a list; names may repeat
CatLists ==
    {cs \in SeqsUpTo([id : 0..MaxCats-1, name : CatNames], MaxCats) :
        Distinct(IdsOf(cs))}

\* image lists: file names that may repeat, ids 1..n ascending or descending
AscImgLists ==
    {[j \in 1..Len(ns) |-> Image(j, ns[j])] : ns \in SeqsUpTo(FileNames, MaxImgs)}
ImgLists ==
    AscImgLists \cup
    {[j \in 1..Len(ns) |-> Image(Len(ns) + 1 - j, ns[j])] :
        ns \in SeqsUpTo(FileNames, MaxImgs)}

\* license lists: one name with the url absent, "" or given, and another name;
\* ids 1..n, ascending in the first dataset and descending in the others
LicenseKinds ==
    {[name |-> "A"], [name |-> "A", url |-> ""], [name |-> "A", url |-> "u1"],
     [name |-> "B"]}
LicLists == SeqsUpTo(LicenseKinds, MaxLics)
WithIds(ls, asc) ==
    [j \in 1..Len(ls) |->
        ("id" :> (IF asc THEN j ELSE Len(ls) + 1 - j)) @@ ls[j]]

\* one annotation per category of cats, in list order, all of image 1
AnnPerCategory(cats) == [j \in 1..Len(cats) |-> Ann(j, 1, cats[j].id)]
\* one annotation per image of imgs, in list order, all of category 0
AnnPerImage(imgs) == [j \in 1..Len(imgs) |-> Ann(j, imgs[j].id, 0)]
\* annotation lists that refer to images of imgs, all of category 0
AnnLists(imgs) ==
    {[j \in 1..Len(s) |-> Ann(j, s[j], 0)] :
        s \in SeqsUpTo({imgs[j].id : j \in 1..Len(imgs)}, MaxAnns)}

OneCategory == <<[id |-> 0, name |-> "cat"]>>
StemOf(d) == IF d = 1 THEN "x" ELSE "y"

MergeArgs(dss, mode, prefixes, align, drop) ==
    [datasets |-> dss, prefix_mode |-> mode, custom_prefixes |-> prefixes,
     align_by_name |-> align, drop_duplicate_filenames |-> drop]

\* inputs that vary the categories: the last dataset has its own list, the
\* others the first dataset's; every dataset has one annotation per category
CategoryInputs ==
    {MergeArgs([d \in 1..NumDatasets |->
                    LET cats == IF d = NumDatasets THEN c2 ELSE c1
                    IN  Dataset(StemOf(d), cats, <<>>, <<Image(1, "a.jpg")>>,
                                AnnPerCategory(cats))],
               "none", None, align, FALSE) :
        c1 \in CatLists, c2 \in CatLists, align \in BOOLEAN}

\* inputs that vary the licenses of the first two datasets, each of which has
\* one image without a license and one image per license id
LicensedImages ==
    [j \in 1..MaxLics + 1 |->
        IF j = 1 THEN Image(1, "a.jpg")
        ELSE [id |-> j, file_name |-> "b.jpg", width |-> 10, height |-> 10,
              license |-> j - 1]]
LicenseInputs ==
    {MergeArgs([d \in 1..NumDatasets |->
                    IF d = 1
                    THEN Dataset(StemOf(d), OneCategory, WithIds(l1, TRUE),
                                 LicensedImages, <<>>)
                    ELSE IF d = 2
                    THEN Dataset(StemOf(d), OneCategory, WithIds(l2, FALSE),
                                 LicensedImages, <<>>)
                    ELSE Dataset(StemOf(d), OneCategory, <<>>, <<>>, <<>>)],
               "none", None, FALSE, FALSE) :
        l1 \in LicLists, l2 \in LicLists}

\* inputs that vary the images and annotations of the first dataset (any image
\* list with any annotation list), followed by an ascending image list with
\* one annotation per image
ImagesAndAnns == UNION {{<<is, as>> : as \in AnnLists(is)} : is \in ImgLists}
BothNames == <<Image(1, "a.jpg"), Image(2, "b.jpg")>>
ImageInputs ==
    {MergeArgs([d \in 1..NumDatasets |->
                    IF d = 1 THEN Dataset(StemOf(d), OneCategory, <<>>, ia[1], ia[2])
                    ELSE IF d = 2
                    THEN Dataset(StemOf(d), OneCategory, <<>>, i2, AnnPerImage(i2))
                    ELSE Dataset(StemOf(d), OneCategory, <<>>, <<>>, <<>>)],
               "none", None, FALSE, drop) :
        ia \in ImagesAndAnns, i2 \in AscImgLists, drop \in BOOLEAN}

\* inputs that vary the images and annotations of the second dataset, after a
\* dataset that has both file names with one annotation each
LaterImageInputs ==
    {MergeArgs([d \in 1..NumDatasets |->
                    IF d = 1
                    THEN Dataset(StemOf(d), OneCategory, <<>>, BothNames,
                                 AnnPerImage(BothNames))
                    ELSE IF d = 2
                    THEN Dataset(StemOf(d), OneCategory, <<>>, ia[1], ia[2])
                    ELSE Dataset(StemOf(d), OneCategory, <<>>, <<>>, <<>>)],
               "none", None, FALSE, drop) :
        ia \in ImagesAndAnns, drop \in BOOLEAN}

\* inputs that vary the prefixes: the stems of the input paths with
\* prefix_mode "basename", the prefix list with "custom"; every dataset has
\* the same ascending image list with one annotation per image
PrefixConfigs ==
    {[mode |-> "basename", stems |-> st, prefixes |-> None] :
        st \in [1..NumDatasets -> Stems]}
    \cup {[mode |-> "custom", stems |-> [d \in 1..NumDatasets |-> StemOf(d)],
           prefixes |-> ps] :
        ps \in SeqsUpTo({"", "p_"}, NumDatasets)}
PrefixInputs ==
    {MergeArgs([d \in 1..NumDatasets |->
                    Dataset(c.stems[d], OneCategory, <<>>, imgs, AnnPerImage(imgs))],
               c.mode, c.prefixes, FALSE, drop) :
        imgs \in AscImgLists, c \in PrefixConfigs, drop \in BOOLEAN}

MergeInit(a) ==
    /\ datasets = a.datasets
    /\ prefix_mode = a.prefix_mode
    /\ custom_prefixes = a.custom_prefixes
    /\ align_by_name = a.align_by_name
    /\ drop_duplicate_filenames = a.drop_duplicate_filenames
    /\ i = 1
    /\ img_pos = 1
    /\ cat_maps = <<>>
    /\ merged_categories = <<>>
    /\ merged_licenses = <<>>
    /\ lic_key_to_newid = <<>>
    /\ next_img_id = 1
    /\ next_ann_id = 1
    /\ merged_images = <<>>
    /\ merged_annotations = <<>>
    /\ seen_filenames = {}
    /\ merged = None
    /\ out_file = None
    /\ img_src = <<>>
    /\ ann_src = <<>>

(***************************************************************************)
(* The inputs of yolo_to_coco                                              *)
(***************************************************************************)
IntTok(n)   == [kind |-> "int", num |-> n]
FloatTok(n) == [kind |-> "float", num |-> n]
JunkTok     == [kind |-> "junk", num |-> 0]

\* "<cls> <xc> <yc> <w> <h>", the four values in 1/NDen
Line(cls, xc, yc, ww, hh) ==
    <<IntTok(cls), FloatTok(xc), FloatTok(yc), FloatTok(ww), FloatTok(hh)>>
Half == NDen \div 2
CentredLine(cls) == Line(cls, Half, Half, Half, Half)

\* the shapes of a line: blank, too short, plain (classes 0 and 1), with a
\* confidence, too long, a class that is no integer literal, a value that is
\* no number, a box clipped to nothing, integer literals as values
LineShapes ==
    { <<>>,
      SubSeq(CentredLine(0), 1, 4),
      CentredLine(0),
      CentredLine(1),
      CentredLine(0) \o <<FloatTok(3)>>,
      CentredLine(0) \o <<FloatTok(3), FloatTok(3)>>,
      <<FloatTok(NDen)>> \o SubSeq(CentredLine(0), 2, 5),
      SubSeq(CentredLine(1), 1, 4) \o <<JunkTok>>,
      Line(1, MaxNum, Half, 1, 1),
      <<IntTok(0), IntTok(1), IntTok(0), IntTok(1), FloatTok(Half)>> }

ImgFile(name, size) == [name |-> name, size |-> size]

\* the image directories: file names in sorted order
ImageDirs ==
    { <<>>, <<"a.jpg">>, <<"a.jpg", "b.jpg">>, <<"a.jpg", "a.png">>,
      <<"a.jpg", "a.png", "b.jpg">> }

Y2CArgs(files, lbls, cls, round) ==
    [img_files |-> files, labels |-> lbls, classes |-> cls, bbox_round |-> round]

\* inputs that vary the directory, the image whose size cannot be resolved
\* (none when unsized = 0) and the class-name list, with two label files
DirectoryInputs ==
    {Y2CArgs([j \in 1..Len(dir) |->
                 ImgFile(dir[j], IF j = unsized THEN None ELSE <<<<4, 2>>>>)],
             ("a" :> <<CentredLine(0), CentredLine(1)>>) @@ ("b" :> <<CentredLine(1)>>),
             cls, DefaultBboxRound) :
        dir \in ImageDirs, unsized \in 0..3,
        cls \in {<<>>, <<"c0">>, <<"c0", "c1">>}}

\* inputs that vary the lines of a.txt, the presence of b.txt and the
\* class-name list, for one image or three
ParsingInputs ==
    {Y2CArgs([j \in 1..Len(dir) |-> ImgFile(dir[j], <<<<4, 2>>>>)],
             (IF a = None THEN <<>> ELSE "a" :> a[1])
                 @@ (IF b THEN "b" :> <<CentredLine(1)>> ELSE <<>>),
             cls, DefaultBboxRound) :
        dir \in {<<"a.jpg">>, <<"a.jpg", "a.png", "b.jpg">>},
        a \in {None} \cup {<<ls>> : ls \in SeqsUpTo(LineShapes, MaxLines)},
        b \in BOOLEAN, cls \in {<<>>, <<"c0">>, <<"c0", "c1">>}}

\* inputs that vary the four values of one line, the image size and the rounding
GeometryInputs ==
    {Y2CArgs(<<ImgFile("a.jpg", <<size>>)>>,
             "a" :> <<Line(0, xc, yc, ww, hh)>>, <<>>, round) :
        xc \in -1..MaxNum, yc \in -1..MaxNum, ww \in -1..MaxNum,
        hh \in -1..MaxNum, size \in {<<4, 2>>, <<3, 3>>},
        round \in {-1, DefaultBboxRound}}


(***************************************************************************)
(* The inputs of coco_to_yolo_files                                        *)
(***************************************************************************)
\* image lists: ids 1..n in list order, the width absent, 0 or 4
C2YImageKinds ==
    [file_name : FileNames, width : {0, 4}, height : {2}]
        \cup [file_name : FileNames, height : {2}]
C2YImgLists ==
    {[j \in 1..Len(ks) |-> ("id" :> j) @@ ks[j]] :
        ks \in SeqsUpTo(C2YImageKinds, MaxImgs)}

\* annotations: a box of 1 x 1 pixel whose x is the annotation's id, so that
\* the annotations of a dataset differ in their label lines
C2YAnn(id, image_id, category_id) ==
    [id |-> id, image_id |-> image_id, category_id |-> category_id,
     bbox |-> <<id * PxUnit, 0, PxUnit, PxUnit>>, area |-> PxUnit * PxUnit,
     iscrowd |-> 0, segmentation |-> <<>>]
C2YAnnLists(imgs) ==
    {[j \in 1..Len(s) |-> C2YAnn(j, s[j], 0)] :
        s \in SeqsUpTo({imgs[j].id : j \in 1..Len(imgs)}, MaxAnns)}

C2YArgs(c, keep, skip) ==
    [coco |-> c, keep_category_ids |-> keep, skip_empty_labels |-> skip]

\* inputs that vary the images, their sizes and their annotations
ImageListInputs ==
    UNION {{C2YArgs([images |-> is, annotations |-> as, categories |-> OneCategory],
                    FALSE, skip) :
              as \in C2YAnnLists(is), skip \in BOOLEAN} :
           is \in C2YImgLists}


\* inputs that vary the file names (two of them differ only in the extension,
\* two only in the directory), the annotations and skip_empty_labels
SizedImage(id, file_name) ==
    [id |-> id, file_name |-> file_name, width |-> 4, height |-> 2]
StemImgLists ==
    {[j \in 1..Len(ns) |-> SizedImage(j, ns[j])] :
        ns \in SeqsUpTo({"a.jpg", "a.png", "b.jpg", "d/a.jpg"}, MaxImgs)}
FileNameInputs ==
    UNION {{C2YArgs([images |-> is, annotations |-> as, categories |-> OneCategory],
                    FALSE, skip) :
              as \in C2YAnnLists(is), skip \in BOOLEAN} :
           is \in StemImgLists}

\* inputs that vary the categories (ids 0..MaxCats unique in a list, in any
\* order, with a name or without) and keep_category_ids; the annotations are
\* none or one per id of 0..MaxCats, so that some have no category
C2YCategoryKinds ==
    [id : 0..MaxCats, name : CatNames] \cup [id : 0..MaxCats]
C2YCatLists ==
    {cs \in SeqsUpTo(C2YCategoryKinds, MaxCats) : Distinct(IdsOf(cs))}
AnnPerCategoryId == [j \in 1..MaxCats + 1 |-> C2YAnn(j, 1, j - 1)]
CategoryListInputs ==
    {C2YArgs([images |-> <<SizedImage(1, "a.jpg")>>, annotations |-> as,
              categories |-> cs], keep, FALSE) :
        cs \in C2YCatLists, as \in {<<>>, AnnPerCategoryId}, keep \in BOOLEAN}

\* inputs that vary the annotations: of image 1, of image 2 or of no image
\* (id 0), of category 0 or of no category (id MaxCats), crowd or not, or
\* without the iscrowd field
C2YAnnKinds ==
    [image_id : 0..2, category_id : {0, MaxCats}, iscrowd : {0, 1}]
        \cup {[image_id |-> 1, category_id |-> 0]}
AnnotationInputs ==
    {C2YArgs([images |-> <<SizedImage(1, "a.jpg"), SizedImage(2, "b.jpg")>>,
              annotations |->
                  [j \in 1..Len(ks) |->
                      ks[j] @@ [id |-> j, bbox |-> <<j * PxUnit, 0, PxUnit, PxUnit>>,
                                area |-> PxUnit * PxUnit, segmentation |-> <<>>]],
              categories |-> OneCategory], keep, skip) :
        ks \in SeqsUpTo(C2YAnnKinds, MaxAnns), keep \in BOOLEAN, skip \in BOOLEAN}


(***************************************************************************)
(* The specifications                                                      *)
(***************************************************************************)
vars == <<prog, pc, mergeVars, y2cVars, c2yVars>>

MergeIdle == MergeInit(MergeArgs(<<>>, "none", None, FALSE, FALSE))

Y2CInit(a) ==
    /\ img_files = a.img_files
    /\ labels = a.labels
    /\ classes = a.classes
    /\ bbox_round = a.bbox_round
    /\ file_pos = 1
    /\ images = <<>>
    /\ annotations = <<>>
    /\ categories = <<>>
    /\ ann_id = 1
    /\ img_id = 1
    /\ seen_class_ids = {}
    /\ coco_out = None

Y2CIdle == Y2CInit(Y2CArgs(<<>>, <<>>, <<>>, DefaultBboxRound))

C2YInit(a) ==
    /\ coco = a.coco
    /\ keep_category_ids = a.keep_category_ids
    /\ skip_empty_labels = a.skip_empty_labels
    /\ item_pos = 1
    /\ catid_to_yolo = <<>>
    /\ yolo_classes = <<>>
    /\ label_files = <<>>
    /\ classes_file = None

C2YIdle ==
    C2YInit(C2YArgs([images |-> <<>>, annotations |-> <<>>, categories |-> <<>>],
                    FALSE, FALSE))

InitMerge ==
    /\ prog = "merge" /\ pc = "start"
    /\ \/ \E a \in CategoryInputs : MergeInit(a)
       \/ \E a \in LicenseInputs : MergeInit(a)
       \/ \E a \in ImageInputs : MergeInit(a)
       \/ \E a \in LaterImageInputs : MergeInit(a)
       \/ \E a \in PrefixInputs : MergeInit(a)
    /\ Y2CIdle /\ C2YIdle

InitY2C ==
    /\ prog = "y2c" /\ pc = "start"
    /\ \/ \E a \in DirectoryInputs : Y2CInit(a)
       \/ \E a \in ParsingInputs : Y2CInit(a)
       \/ \E a \in GeometryInputs : Y2CInit(a)
    /\ MergeIdle /\ C2YIdle

InitC2Y ==
    /\ prog = "c2y" /\ pc = "start"
    /\ \/ \E a \in ImageListInputs : C2YInit(a)
       \/ \E a \in FileNameInputs : C2YInit(a)
       \/ \E a \in CategoryListInputs : C2YInit(a)
       \/ \E a \in AnnotationInputs : C2YInit(a)
    /\ MergeIdle /\ Y2CIdle

NextMerge ==
    \/ MergeStart
    \/ MergeCategories
    \/ MergeLicenses
    \/ MergeImage
    \/ MergeNextDataset
    \/ MergeReturn
    \/ MergeWrite

NextY2C ==
    \/ Y2CStart
    \/ Y2CImage
    \/ Y2CReturn

NextC2Y ==
    \/ C2YStart
    \/ C2YImage
    \/ C2YClasses

Init == InitMerge \/ InitY2C \/ InitC2Y
Next == NextMerge \/ NextY2C \/ NextC2Y

SpecMerge == InitMerge /\ [][NextMerge]_vars
SpecY2C   == InitY2C /\ [][NextY2C]_vars
SpecC2Y   == InitC2Y /\ [][NextC2Y]_vars
Spec      == Init /\ [][Next]_vars

\* yolo_to_coco followed by coco_to_yolo_files on its result
NextRoundTrip == NextY2C \/ RoundTripLoad \/ NextC2Y
SpecRoundTrip == InitY2C /\ [][NextRoundTrip]_vars

(***************************************************************************)
(* Properties                                                              *)
(***************************************************************************)
MergeReturned == prog = "merge" /\ merged # None
Y2CReturned   == prog = "y2c" /\ coco_out # None

\* the number of positions of s that satisfy Test
Count(s, Test(_)) == Cardinality({j \in 1..Len(s) : Test(s[j])})

\* ids 1, 2, ... in list order
IdsFromOne(s) == \A j \in 1..Len(s) : s[j].id = j

\* the input images of a merge, and whether one was taken over
InputImages ==
    UNION {{<<d, k>> : k \in 1..Len(datasets[d].images)} : d \in 1..Len(datasets)}
Accepted(d, k) == \E j \in 1..Len(img_src) : img_src[j] = <<d, k>>
Before(d1, k1, d2, k2) == d1 < d2 \/ (d1 = d2 /\ k1 < k2)
\* prefix + file_name of an input image, from the arguments alone
PrefixedName(d, k) ==
    LET name == datasets[d].images[k].file_name
    IN  CASE prefix_mode = "basename" -> datasets[d].stem \o "_" \o name
          [] prefix_mode = "custom"   -> custom_prefixes[d] \o name
          [] OTHER                    -> name

\* C1: the dataset merge_datasets returns and the dataset yolo_to_coco
\* returns number their images 1..n and their annotations 1..m in list order
C1_IdsFromOne ==
    /\ MergeReturned =>
          /\ IdsFromOne(merged[1].images)
          /\ IdsFromOne(merged[1].annotations)
    /\ Y2CReturned =>
          /\ IdsFromOne(coco_out[1].images)
          /\ IdsFromOne(coco_out[1].annotations)

\* a merge that dropped a duplicate image, kept an image without annotations
\* and returned at least two annotations
C1_Witness ==
    /\ MergeReturned /\ drop_duplicate_filenames
    /\ \E <<d, k>> \in InputImages : ~Accepted(d, k)
    /\ \E j \in 1..Len(merged[1].images) :
          \A a \in Range(merged[1].annotations) : a.image_id # j
    /\ Len(merged[1].annotations) >= 2

\* C2: in the dataset a merge returns every annotation's image_id is the id of
\* exactly one merged image and its category_id the id of exactly one merged
\* category
C2_ReferencesResolve ==
    MergeReturned =>
        \A a \in Range(merged[1].annotations) :
            /\ Count(merged[1].images, LAMBDA im : im.id = a.image_id) = 1
            /\ Count(merged[1].categories, LAMBDA c : c.id = a.category_id) = 1

\* C3: in the dataset yolo_to_coco returns every annotation's category_id is
\* the id of exactly one category, with and without a class-name list
C3_CategoriesResolve ==
    Y2CReturned =>
        \A a \in Range(coco_out[1].annotations) :
            Count(coco_out[1].categories, LAMBDA c : c.id = a.category_id) = 1

\* C4: with drop_duplicate_filenames the merged file names are pairwise
\* distinct, the image kept for a name is the first input image with that
\* (prefixed) name, and no annotation of a dropped image is in the output
C4_KeepFirst ==
    (MergeReturned /\ drop_duplicate_filenames) =>
        /\ \A p, q \in 1..Len(merged[1].images) :
              p # q => merged[1].images[p].file_name # merged[1].images[q].file_name
        /\ \A <<d, k>> \in InputImages :
              Accepted(d, k) <=>
                  \A <<e, m>> \in InputImages :
                      Before(e, m, d, k) => PrefixedName(e, m) # PrefixedName(d, k)
        /\ \A j \in 1..Len(merged[1].images) :
              merged[1].images[j].file_name = PrefixedName(img_src[j][1], img_src[j][2])
        /\ \A r \in 1..Len(merged[1].annotations) :
              LET d == ann_src[r][1]
                  a == datasets[d].annotations[ann_src[r][2]]
              IN  \A k \in 1..Len(datasets[d].images) :
                      datasets[d].images[k].id = a.image_id => Accepted(d, k)

\* a merge that dropped an image of a later dataset and an image repeated
\* inside one dataset, one of the dropped images having an annotation
C4_Witness ==
    /\ MergeReturned /\ drop_duplicate_filenames
    /\ \E k \in 1..Len(datasets[2].images), m \in 1..Len(datasets[1].images) :
          /\ ~Accepted(2, k)
          /\ PrefixedName(2, k) = PrefixedName(1, m)
          /\ \E a \in Range(datasets[2].annotations) :
                a.image_id = datasets[2].images[k].id
    /\ \E d \in 1..Len(datasets) : \E k, m \in 1..Len(datasets[d].images) :
          m < k /\ ~Accepted(d, k) /\ Accepted(d, m)
          /\ PrefixedName(d, k) = PrefixedName(d, m)
    /\ merged[1].annotations # <<>>

\* the licenses of the inputs in input order, and the (name, url) key of one
InputLicenses == AllLicenses(datasets, Len(datasets))
KeyOf(l) == <<l.name, IF "url" \in DOMAIN l THEN l.url ELSE "">>
KeysOf(ls) == {KeyOf(ls[j]) : j \in 1..Len(ls)}
FirstAt(ls, key) ==
    CHOOSE j \in 1..Len(ls) :
        KeyOf(ls[j]) = key /\ \A m \in 1..j-1 : KeyOf(ls[m]) # key

\* C5: the merged licenses are one per (name, url) key of the input licenses
\* (an absent url being ""), in the order of the keys' first occurrences, with
\* ids 1..n
C5_LicensesDeduplicated ==
    MergeReturned =>
        LET ml == merged[1].licenses
        IN  /\ KeysOf(ml) = KeysOf(InputLicenses)
            /\ Len(ml) = Cardinality(KeysOf(InputLicenses))
            /\ IdsFromOne(ml)
            /\ \A p, q \in 1..Len(ml) :
                  p < q => FirstAt(InputLicenses, KeyOf(ml[p]))
                              < FirstAt(InputLicenses, KeyOf(ml[q]))

\* a merge of licenses where a key of the first dataset returns in the second,
\* a license without url and one with url "" share a name, and at least two
\* licenses come out of at least three
C5_Witness ==
    /\ MergeReturned
    /\ KeysOf(datasets[1].licenses) \cap KeysOf(datasets[2].licenses) # {}
    /\ \E l1, l2 \in Range(InputLicenses) :
          /\ "url" \notin DOMAIN l1
          /\ "url" \in DOMAIN l2 /\ l2.url = "" /\ l2.name = l1.name
    /\ Len(InputLicenses) >= 3
    /\ Len(merged[1].licenses) >= 2

\* C6: with align_by_name, an annotation of a dataset whose signature differs
\* from the first dataset's gets the first dataset's id of the name its own
\* category has
C6_AlignedByName ==
    (MergeReturned /\ align_by_name) =>
        \A r \in 1..Len(merged[1].annotations) :
            LET d == ann_src[r][1]
                a == datasets[d].annotations[ann_src[r][2]]
            IN  categories_signature(datasets[d].categories)
                    # categories_signature(datasets[1].categories)
                => \E c \in Range(datasets[d].categories),
                      f \in Range(datasets[1].categories) :
                        /\ c.id = a.category_id
                        /\ f.name = c.name
                        /\ f.id = merged[1].annotations[r].category_id

\* the failures of a merge, from the arguments alone
PairsOf(cats) == {<<cats[j].id, cats[j].name>> : j \in 1..Len(cats)}
NamesOf(cats) == {cats[j].name : j \in 1..Len(cats)}
PrefixCountWrong ==
    prefix_mode = "custom" /\ Len(custom_prefixes) # Len(datasets)
SomeWithoutCategories == \E d \in 1..Len(datasets) : datasets[d].categories = <<>>
SomeUnreconcilable ==
    \E d \in 1..Len(datasets) :
        /\ PairsOf(datasets[d].categories) # PairsOf(datasets[1].categories)
        /\ \/ ~align_by_name
           \/ NamesOf(datasets[d].categories) # NamesOf(datasets[1].categories)
MergeMustFail == PrefixCountWrong \/ SomeWithoutCategories \/ SomeUnreconcilable
NothingMerged ==
    /\ merged_images = <<>> /\ merged_annotations = <<>>
    /\ merged = None /\ out_file = None

\* C7: a merge whose arguments are refused (prefix count, a dataset without
\* categories, categories that cannot be reconciled) fails before an image or
\* annotation is merged; nothing is returned and nothing is written
C7_FailsBeforeOutput ==
    prog = "merge" =>
        /\ pc = "failed" => (MergeMustFail /\ NothingMerged)
        /\ MergeMustFail => (pc \in {"start", "categories", "failed"} /\ NothingMerged)

\* a merge that failed on a second dataset with categories: [], the first
\* dataset having categories and an image
C7_Witness ==
    /\ prog = "merge" /\ pc = "failed"
    /\ Len(datasets) >= 2
    /\ datasets[1].categories # <<>> /\ datasets[1].images # <<>>
    /\ datasets[2].categories = <<>>

\* C8: when coco_to_yolo_files fails, no label file and no class-name list has
\* been written
C8_NoPartialOutput ==
    (prog = "c2y" /\ pc = "failed") =>
        (DOMAIN label_files = {} /\ classes_file = None)

\* a line that yields an annotation: 5 or 6 tokens, an integer literal first,
\* then four numbers
WellFormed(parts) ==
    /\ Len(parts) \in {5, 6}
    /\ parts[1].kind = "int"
    /\ \A t \in 2..5 : parts[t].kind # "junk"
LinesFor(name) ==
    IF FileStem(name) \in DOMAIN labels THEN labels[FileStem(name)] ELSE <<>>

\* C9: yolo_to_coco returns one image per image file and, for each, as many
\* annotations as its label file has well-formed lines (none without a label
\* file), each with iscrowd 0 and an empty segmentation
C9_OneAnnotationPerLine ==
    Y2CReturned =>
        LET out == coco_out[1]
        IN  /\ Len(out.images) = Len(img_files)
            /\ \A j \in 1..Len(img_files) :
                  Count(out.annotations, LAMBDA a : a.image_id = out.images[j].id)
                      = Count(LinesFor(img_files[j].name), WellFormed)
            /\ \A a \in Range(out.annotations) :
                  a.iscrowd = 0 /\ a.segmentation = <<>>

\* a conversion of an image without a label file and of a label file with a
\* well-formed line, a refused line and a box that clipping left no width
C9_Witness ==
    /\ Y2CReturned
    /\ \E f \in Range(img_files) : FileStem(f.name) \notin DOMAIN labels
    /\ \E f \in Range(img_files) :
          /\ \E l \in Range(LinesFor(f.name)) : WellFormed(l)
          /\ \E l \in Range(LinesFor(f.name)) : l # <<>> /\ ~WellFormed(l)
    /\ \E a \in Range(coco_out[1].annotations) : a.bbox[3] = 0

\* C10: without rounding, every box of yolo_to_coco lies inside its image:
\* 0 <= x <= W, 0 <= y <= H, w >= 0, h >= 0, x + w <= W, y + h <= H
C10_BoxInsideImage ==
    (Y2CReturned /\ bbox_round < 0) =>
        \A a \in Range(coco_out[1].annotations) :
            LET im == CHOOSE m \in Range(coco_out[1].images) : m.id = a.image_id
                W  == im.width * PxUnit
                H  == im.height * PxUnit
            IN  /\ 0 <= a.bbox[1] /\ a.bbox[1] <= W
                /\ 0 <= a.bbox[2] /\ a.bbox[2] <= H
                /\ a.bbox[3] >= 0 /\ a.bbox[4] >= 0
                /\ a.bbox[1] + a.bbox[3] <= W
                /\ a.bbox[2] + a.bbox[4] <= H

\* the input images a merge keeps, from the arguments alone, in input order
KeptByArgs(d, k) ==
    \/ ~drop_duplicate_filenames
    \/ \A <<e, m>> \in InputImages :
          Before(e, m, d, k) => PrefixedName(e, m) # PrefixedName(d, k)
ExpectedImages ==
    LET S == {p \in InputImages : KeptByArgs(p[1], p[2])}
    IN  [r \in 1..Cardinality(S) |->
            CHOOSE p \in S :
                Cardinality({q \in S : Before(q[1], q[2], p[1], p[2])}) = r - 1]
\* their annotations: <<rank of the image, position of the annotation in the
\* image's own dataset>>, by image and then by position
ExpectedAnnotations ==
    LET EI == ExpectedImages
        T  == UNION {{<<j, p>> : p \in
                        {q \in 1..Len(datasets[EI[j][1]].annotations) :
                            datasets[EI[j][1]].annotations[q].image_id
                                = datasets[EI[j][1]].images[EI[j][2]].id}} :
                     j \in 1..Len(EI)}
    IN  [r \in 1..Cardinality(T) |->
            CHOOSE t \in T :
                Cardinality({u \in T : u[1] < t[1] \/ (u[1] = t[1] /\ u[2] < t[2])})
                    = r - 1]

\* C12: (image ids unique within each input dataset) the merged images are
\* the kept input images in dataset order and original order, and the merged
\* annotations are, image by image, the annotations of that image in its own
\* dataset, in their original relative order, none lost, repeated or taken
\* from another dataset
C12_OrderPreserved ==
    MergeReturned =>
        LET EI == ExpectedImages
            EA == ExpectedAnnotations
        IN  /\ Len(merged[1].images) = Len(EI)
            /\ \A j \in 1..Len(EI) :
                  /\ img_src[j] = EI[j]
                  /\ merged[1].images[j].file_name = PrefixedName(EI[j][1], EI[j][2])
            /\ Len(merged[1].annotations) = Len(EA)
            /\ \A r \in 1..Len(EA) :
                  LET d == EI[EA[r][1]][1]
                  IN  /\ ann_src[r] = <<d, EA[r][2]>>
                      /\ merged[1].annotations[r].image_id = merged[1].images[EA[r][1]].id
                      /\ merged[1].annotations[r].bbox
                             = datasets[d].annotations[EA[r][2]].bbox

\* a merge whose first dataset lists an annotation of its second kept image
\* before one of its first, and that dropped an image of the second dataset
\* whose annotation has the image_id of a kept, annotated image of the first
C12_Witness ==
    /\ MergeReturned /\ drop_duplicate_filenames
    /\ \E p, q \in 1..Len(datasets[1].annotations) :
          /\ p < q
          /\ \E r, t \in 1..Len(ann_src) :
                r > t /\ ann_src[r] = <<1, p>> /\ ann_src[t] = <<1, q>>
    /\ \E k \in 1..Len(datasets[2].images) :
          /\ ~KeptByArgs(2, k)
          /\ \E a \in Range(datasets[2].annotations) :
                /\ a.image_id = datasets[2].images[k].id
                /\ \E r \in 1..Len(ann_src) :
                      /\ ann_src[r][1] = 1
                      /\ datasets[1].annotations[ann_src[r][2]].image_id = a.image_id

\* the reconciliation of dataset d, from the arguments alone (category ids
\* unique within a dataset): same (id, name) pairs, or else same names
SameSignature(d) ==
    PairsOf(datasets[d].categories) = PairsOf(datasets[1].categories)
Reconcilable(d) ==
    \/ SameSignature(d)
    \/ align_by_name
          /\ NamesOf(datasets[d].categories) = NamesOf(datasets[1].categories)
\* s is the list cats ordered by id
IsSortedById(s, cats) ==
    /\ Len(s) = Len(cats)
    /\ PairsOf(s) = PairsOf(cats)
    /\ \A p, q \in 1..Len(s) : p < q => s[p].id < s[q].id

\* C13: a dataset with the first dataset's signature is accepted and its
\* annotations keep their category_id; a dataset with another signature makes
\* the merge fail when align_by_name is off, and with align_by_name on exactly
\* when its category names differ from the first dataset's as sets; the merged
\* categories are the first dataset's, sorted by id
C13_Reconciliation ==
    prog = "merge" =>
        /\ (pc = "failed" /\ ~PrefixCountWrong /\ ~SomeWithoutCategories) =>
               \E d \in 1..Len(datasets) : ~Reconcilable(d)
        /\ pc \in {"images", "returned", "written"} =>
               \A d \in 1..Len(datasets) : Reconcilable(d)
        /\ (\E d \in 1..Len(datasets) : ~Reconcilable(d)) =>
               pc \in {"start", "categories", "failed"}
        /\ MergeReturned =>
               /\ IsSortedById(merged[1].categories, datasets[1].categories)
               /\ \A r \in 1..Len(merged[1].annotations) :
                     SameSignature(ann_src[r][1]) =>
                         merged[1].annotations[r].category_id
                             = datasets[ann_src[r][1]].annotations[ann_src[r][2]].category_id

\* a merge with align_by_name that returned although the second dataset's
\* signature differs (same names under other ids), the first dataset listing
\* its categories out of id order and the first dataset's annotations kept
C13_Witness ==
    /\ MergeReturned /\ align_by_name
    /\ ~SameSignature(2)
    /\ \E p, q \in 1..Len(datasets[1].categories) :
          p < q /\ datasets[1].categories[p].id > datasets[1].categories[q].id
    /\ \E r \in 1..Len(ann_src) : ann_src[r][1] = 1

\* C14: once the category loop has accepted a dataset, its id-map has an entry
\* for every category id the dataset defines (so the fallback to the original
\* id is never taken for an annotation of one of these categories), also when
\* category names repeat within a dataset
C14_FullCoverage ==
    prog = "merge" =>
        \A d \in 1..Len(cat_maps) :
            \A c \in Range(datasets[d].categories) : c.id \in DOMAIN cat_maps[d]

\* the licenses of dataset d that have the id lic_id
LicensesWithId(d, lic_id) ==
    {l \in Range(datasets[d].licenses) : l.id = lic_id}

\* C17: (license ids unique within a dataset) a merged image has a license
\* field exactly when its source image has one whose id its own dataset
\* defines, and then the field is the id of the merged license with the
\* (name, url) key of that license of its own dataset
C17_LicenseRemapped ==
    MergeReturned =>
        \A j \in 1..Len(merged[1].images) :
            LET d   == img_src[j][1]
                src == datasets[d].images[img_src[j][2]]
                out == merged[1].images[j]
            IN  IF "license" \in DOMAIN src /\ LicensesWithId(d, src.license) # {}
                THEN /\ "license" \in DOMAIN out
                     /\ \E m \in Range(merged[1].licenses) :
                           /\ m.id = out.license
                           /\ \A l \in LicensesWithId(d, src.license) :
                                 KeyOf(m) = KeyOf(l)
                ELSE "license" \notin DOMAIN out

\* a merge where images of both datasets have the same original license id
\* and end with different merged licenses, an image lost its license field
\* and an image's license id changed
C17_Witness ==
    /\ MergeReturned
    /\ \E p, q \in 1..Len(merged[1].images) :
          LET sp == datasets[img_src[p][1]].images[img_src[p][2]]
              sq == datasets[img_src[q][1]].images[img_src[q][2]]
          IN  /\ img_src[p][1] = 1 /\ img_src[q][1] = 2
              /\ "license" \in DOMAIN merged[1].images[p]
              /\ "license" \in DOMAIN merged[1].images[q]
              /\ sp.license = sq.license
              /\ merged[1].images[p].license # merged[1].images[q].license
    /\ \E j \in 1..Len(merged[1].images) :
          /\ "license" \in DOMAIN datasets[img_src[j][1]].images[img_src[j][2]]
          /\ "license" \notin DOMAIN merged[1].images[j]
    /\ \E j \in 1..Len(merged[1].images) :
          /\ "license" \in DOMAIN merged[1].images[j]
          /\ merged[1].images[j].license
                # datasets[img_src[j][1]].images[img_src[j][2]].license

\* the records a and b have the same fields with the same values, the fields
\* of except aside
SameExcept(a, b, except) ==
    /\ DOMAIN a \ except = DOMAIN b \ except
    /\ \A f \in DOMAIN a \ except : a[f] = b[f]

MergeFrame ==
    MergeReturned =>
        /\ \A j \in 1..Len(merged[1].images) :
              LET src == datasets[img_src[j][1]].images[img_src[j][2]]
                  out == merged[1].images[j]
              IN  /\ SameExcept(out, src, {"id", "file_name", "license"})
                  /\ "file_name" \in DOMAIN out
                  /\ prefix_mode = "none" => out.file_name = src.file_name
        /\ \A r \in 1..Len(merged[1].annotations) :
              LET src == datasets[ann_src[r][1]].annotations[ann_src[r][2]]
                  out == merged[1].annotations[r]
              IN  /\ SameExcept(out, src, {"id", "image_id", "category_id"})
                  /\ {"bbox", "area", "iscrowd", "segmentation"} \subseteq DOMAIN out

\* C19: a merged image equals its source image in every field other than id,
\* file_name and license (and in file_name with prefix_mode "none"), a merged
\* annotation equals its source annotation in every field other than id,
\* image_id and category_id, and no step of the merge changes the loaded
\* input datasets
C19_Frame == [](MergeFrame) /\ [][datasets' = datasets]_vars

\* a merge that returned images and annotations, one image having lost its
\* license field or got a prefix, with ids that differ from the source's
C19_Witness ==
    /\ MergeReturned
    /\ merged[1].annotations # <<>>
    /\ \E j \in 1..Len(merged[1].images) :
          LET src == datasets[img_src[j][1]].images[img_src[j][2]]
          IN  /\ src.id # merged[1].images[j].id
              /\ \/ src.file_name # merged[1].images[j].file_name
                 \/ DOMAIN src # DOMAIN merged[1].images[j]

C2YDone == prog = "c2y" /\ pc = "done"

\* an annotation that qualifies for a label line: not crowd, of an image of
\* the dataset, of a category of the (given or synthesized) category list
Qualifies(a) ==
    /\ ("iscrowd" \in DOMAIN a => a.iscrowd # 1)
    /\ \E im \in Range(coco.images) : im.id = a.image_id
    /\ \E c \in Range(CatsOf(coco)) : c.id = a.category_id
\* the label lines of the qualifying annotations of image im, in list order
ExpectedLines(im) ==
    LET q == SelectSeq(coco.annotations,
                       LAMBDA a : Qualifies(a) /\ a.image_id = im.id)
    IN  [j \in 1..Len(q) |-> LabelLine(q[j], im.width, im.height)]
\* the images that must have a label file
Labelled ==
    {j \in 1..Len(coco.images) :
        ~skip_empty_labels \/ ExpectedLines(coco.images[j]) # <<>>}

DistinctFileNames ==
    \A p, q \in 1..Len(coco.images) :
        p # q => coco.images[p].file_name # coco.images[q].file_name

\* C15: (image ids and file names unique) after a successful
\* coco_to_yolo_files there is one label file per image, or with
\* skip_empty_labels per image that has a qualifying annotation, named by the
\* stem of file_name, and it holds exactly the label lines of that image's
\* qualifying annotations in their original order, also when file names
\* differ only in directory or extension
C15_OneFilePerImage ==
    (C2YDone /\ DistinctFileNames) =>
        /\ Cardinality(DOMAIN label_files) = Cardinality(Labelled)
        /\ DOMAIN label_files = {FileStem(coco.images[j].file_name) : j \in Labelled}
        /\ \A j \in Labelled :
              label_files[FileStem(coco.images[j].file_name)]
                  = ExpectedLines(coco.images[j])

\* the name the class-name list must hold for category c
ClassNameOf(c) ==
    IF "name" \in DOMAIN c /\ c.name # "" THEN c.name
    ELSE "category_" \o ToString(c.id)
\* the image of the dataset with the id of annotation a's image
ImageOf(a) == CHOOSE im \in Range(coco.images) : im.id = a.image_id

\* C16: (category ids unique) after a successful coco_to_yolo_files, in dense
\* mode the class index of a category is its rank by id and the class-name
\* list has one line per category; with keep_category_ids the class index is
\* the category id, the list has max(id)+1 lines and an index that is no
\* category id holds category_<index>; in both modes the class index of every
\* label line is a line number of the list, and that line holds the name of
\* the category of the line's annotation
C16_ClassIndexMapping ==
    C2YDone =>
        LET cats  == CatsOf(coco)
            ids   == {c.id : c \in Range(cats)}
            names == classes_file[1]
        IN  /\ ~keep_category_ids =>
                  /\ Len(names) = Len(cats)
                  /\ \A c \in Range(cats) :
                        catid_to_yolo[c.id] = Cardinality({m \in ids : m < c.id})
            /\ keep_category_ids =>
                  /\ \A m \in ids : m < Len(names)
                  /\ \E m \in ids : m = Len(names) - 1
                  /\ \A c \in Range(cats) : catid_to_yolo[c.id] = c.id
                  /\ \A idx \in 0..Len(names) - 1 :
                        idx \notin ids => names[idx + 1] = "category_" \o ToString(idx)
            /\ \A c \in Range(cats) : names[catid_to_yolo[c.id] + 1] = ClassNameOf(c)
            /\ \A f \in DOMAIN label_files : \A l \in Range(label_files[f]) :
                  /\ l.cls \in 0..Len(names) - 1
                  /\ \E a \in Range(coco.annotations) :
                        /\ Qualifies(a)
                        /\ l = LabelLine(a, ImageOf(a).width, ImageOf(a).height)
                        /\ \E c \in Range(cats) :
                              c.id = a.category_id /\ names[l.cls + 1] = ClassNameOf(c)

\* a conversion with keep_category_ids of categories listed out of id order,
\* with an id that no category has, a category without a name, two label
\* lines written and an annotation left out for want of a category
C16_Witness ==
    /\ C2YDone /\ keep_category_ids
    /\ \E p, q \in 1..Len(coco.categories) :
          p < q /\ coco.categories[p].id > coco.categories[q].id
    /\ \E idx \in 0..Len(classes_file[1]) - 1 :
          \A c \in Range(coco.categories) : c.id # idx
    /\ \E c \in Range(coco.categories) : "name" \notin DOMAIN c
    /\ \E f \in DOMAIN label_files : Len(label_files[f]) >= 2
    /\ \E a \in Range(coco.annotations) : ~Qualifies(a)

\* the label lines of all label files that are annotation a's line
LinesOf(a) ==
    {<<f, j>> \in UNION {{<<g, m>> : m \in 1..Len(label_files[g])} :
                            g \in DOMAIN label_files} :
        /\ \E im \in Range(coco.images) : im.id = a.image_id
        /\ a.category_id \in DOMAIN catid_to_yolo
        /\ label_files[f][j] = LabelLine(a, ImageOf(a).width, ImageOf(a).height)}
\* the failures of coco_to_yolo_files that no annotation causes
FailsWithoutAnnotations ==
    \/ coco.images = <<>>
    \/ \E im \in Range(coco.images) : ~ValidSize(im)
    \/ keep_category_ids /\ coco.categories = <<>> /\ coco.annotations = <<>>

\* C18: (file names unique, annotations differ in their boxes) after a
\* successful coco_to_yolo_files the label files hold exactly one line for each
\* annotation that is not crowd, is of an image of the dataset and of a
\* category with a class index, and no line for any other annotation; and no
\* annotation makes the conversion fail
C18_OneLinePerQualifying ==
    prog = "c2y" =>
        /\ pc = "failed" => FailsWithoutAnnotations
        /\ (pc = "done" /\ DistinctFileNames) =>
              \A a \in Range(coco.annotations) :
                  Cardinality(LinesOf(a)) = IF Qualifies(a) THEN 1 ELSE 0

RoundTripDone == prog = "c2y" /\ pc = "done" /\ coco_out # None

\* a label line whose values are in [0, 1] and whose box is inside the image
BoxInside(parts) ==
    LET xc == FloatOf(parts[2])
        yc == FloatOf(parts[3])
        ww == FloatOf(parts[4])
        hh == FloatOf(parts[5])
    IN  /\ \A v \in {xc, yc, ww, hh} : 0 <= v /\ v <= NDen
        /\ 2 * xc - ww >= 0 /\ 2 * xc + ww <= 2 * NDen
        /\ 2 * yc - hh >= 0 /\ 2 * yc + hh <= 2 * NDen
\* out (in 1e-6) is the value v (in 1/NDen) of a label line after the round
\* trip: its 6-decimal form without rounding, within 10^-d with bbox_round = d
Recovered(out, v) ==
    IF bbox_round < 0
    THEN out = Clamp01Fmt(v, NDen)
    ELSE LET diff == out * NDen - v * 10^6
         IN  /\ diff * 10^bbox_round <= NDen * 10^6
             /\ -diff * 10^bbox_round <= NDen * 10^6
SameGeometry(l, parts) ==
    /\ Recovered(l.xc, FloatOf(parts[2]))
    /\ Recovered(l.yc, FloatOf(parts[3]))
    /\ Recovered(l.ww, FloatOf(parts[4]))
    /\ Recovered(l.hh, FloatOf(parts[5]))

\* C11: after yolo_to_coco and coco_to_yolo_files on its result, every
\* well-formed label line with values in [0, 1] and its box inside the image
\* has, in the label file of the same image, a line with the same geometry:
\* equal in the 6-decimal format without rounding, within 10^-d of the
\* original with bbox_round = d >= 0
C11_RoundTrip ==
    RoundTripDone =>
        \A f \in Range(img_files) :
            \A parts \in Range(LinesFor(f.name)) :
                (WellFormed(parts) /\ BoxInside(parts)) =>
                    /\ FileStem(f.name) \in DOMAIN label_files
                    /\ \E l \in Range(label_files[FileStem(f.name)]) :
                          SameGeometry(l, parts)

====
